---- MODULE Spec2Model ----
(***************************************************************************)
(* The poker hand classifier of script.js: class Hand (its stored card     *)
(* sequence, sort/toSorted, the hand-shape predicates and highestHand),    *)
(* the constructors of Card and Hand, the arrays the Hand shares with its  *)
(* caller, and the page of the later revision (classes Deck and Game).     *)
(* A card of the classifier is a record [value, suit]; code and image play *)
(* no part in it.  JavaScript arrays are sequences; array indices are kept *)
(* 0-based where the code computes with them (indexOf, at).                *)
(***************************************************************************)
EXTENDS Integers, Sequences, FiniteSets, TLC

VARIABLES
    input,      \* the caller's array of five cards, as dealt
    cards,      \* Hand.#cards, the stored sequence of the Hand
    called,     \* the operation that ran last ("new" after the constructor)
    returned,   \* what that operation returned
    args,       \* the arguments that operation was called with
    built,      \* whether a Hand object exists
    statics,    \* the private static arrays of class Hand
    held,       \* the array the caller last received, and which array it is
    game,       \* the page: localStorage, the remote decks, Deck and Game
    other       \* the #cards of a second Hand built from the same array

vars == <<input, cards, called, returned, args, built, statics, held, game, other>>

(***************************************************************************)
(* Constant data of class Hand.                                            *)
(***************************************************************************)
CARD_ORDER_ACE_HIGH ==
    <<"2", "3", "4", "5", "6", "7", "8", "9", "10", "JACK", "QUEEN", "KING", "ACE">>

CARD_ORDER_ACE_LOW ==
    <<"ACE", "2", "3", "4", "5", "6", "7", "8", "9", "10", "JACK", "QUEEN", "KING">>

\* the content of the array Hand.cardOrder returns
cardOrder(ace_high) ==
    IF ace_high THEN statics.high ELSE statics.low

(***************************************************************************)
(* JavaScript array primitives the classifier uses.                        *)
(***************************************************************************)
\* the value of an array read outside its bounds, and of a call returning nothing
Undefined == "<undefined>"

\* the outcome of a call that throws a TypeError
TypeError == "TypeError"

\* Array.prototype.indexOf: 0-based index of the first occurrence, -1 if none
indexOf(arr, v) ==
    LET found == {i \in 1..Len(arr) : arr[i] = v}
    IN IF found = {} THEN -1
       ELSE (CHOOSE i \in found : \A j \in found : i <= j) - 1

\* mutant of at: an index past the end is clamped to the last element
at_clamped(arr, i) ==
    IF i < 0 THEN Undefined
    ELSE IF i < Len(arr) THEN arr[i + 1] ELSE arr[Len(arr)]

\* arr[i] with a 0-based index: undefined outside 0..length-1
at(arr, i) ==
    IF i >= 0 /\ i < Len(arr) THEN arr[i + 1] ELSE Undefined

\* the comparator (a, b) => order.indexOf(a.value) - order.indexOf(b.value)
compare(order, a, b) == indexOf(order, a.value) - indexOf(order, b.value)

\* mutant of insertSorted: an element goes before the elements it ties with
RECURSIVE insertSorted_unstable(_, _, _)
insertSorted_unstable(sorted, c, order) ==
    IF sorted = <<>> THEN <<c>>
    ELSE IF compare(order, sorted[Len(sorted)], c) < 0 THEN Append(sorted, c)
    ELSE Append(insertSorted_unstable(SubSeq(sorted, 1, Len(sorted) - 1), c, order),
                sorted[Len(sorted)])

\* Array.prototype.sort / toSorted with a comparator: a stable sort
RECURSIVE insertSorted(_, _, _)
insertSorted(sorted, c, order) ==
    IF sorted = <<>> THEN <<c>>
    ELSE IF compare(order, sorted[Len(sorted)], c) <= 0 THEN Append(sorted, c)
    ELSE Append(insertSorted(SubSeq(sorted, 1, Len(sorted) - 1), c, order),
                sorted[Len(sorted)])

RECURSIVE stableSort(_, _)
stableSort(arr, order) ==
    IF arr = <<>> THEN <<>>
    ELSE insertSorted(stableSort(SubSeq(arr, 1, Len(arr) - 1), order),
                      arr[Len(arr)], order)

(***************************************************************************)
(* Methods of class Hand, as functions of the stored sequence cs.          *)
(***************************************************************************)
\* Hand.sort: the new content of #cards (sorted in place), also its result
sort(cs, ace_high) == stableSort(cs, cardOrder(ace_high))

\* Hand.toSorted: a sorted copy
toSorted(cs, ace_high) == stableSort(cs, cardOrder(ace_high))

\* Hand.countCards: {rank: count} over the ranks that occur
countCards(cs) ==
    [v \in {cs[i].value : i \in 1..Len(cs)} |->
        Cardinality({i \in 1..Len(cs) : cs[i].value = v})]

\* reading this.#cards[0].suit throws on a Hand without cards
readsFirstCard(cs, result) == IF cs = <<>> THEN TypeError ELSE result

\* mutant of isFlush: only the second card is compared with the first
isFlush_firstTwo(cs) == cs[2].suit = cs[1].suit

isFlush(cs) ==
    LET testSuit == cs[1].suit
    IN \A i \in 1..Len(cs) : cs[i].suit = testSuit

\* mutant of straightUnder: the values are read in stored order, not sorted
straightUnder_unsorted(cs, ace_high) ==
    LET order == cardOrder(ace_high)
        offset == indexOf(order, IF cs = <<>> THEN Undefined ELSE cs[1].value)
    IN \A index \in 0..(Len(cs) - 1) :
           cs[index + 1].value = at(order, index + offset)

\* mutant of straightUnder: the values are compared with the start of the order
straightUnder_noOffset(cs, ace_high) ==
    LET order == cardOrder(ace_high)
        sorted == toSorted(cs, ace_high)
        values == [k \in 1..Len(sorted) |-> sorted[k].value]
    IN \A index \in 0..(Len(values) - 1) :
           values[index + 1] = at(order, index)

\* one pass of the loop of isStraight, for one ace interpretation
straightUnder(cs, ace_high) ==
    LET order == cardOrder(ace_high)
        sorted == toSorted(cs, ace_high)
        values == [k \in 1..Len(sorted) |-> sorted[k].value]
        offset == indexOf(order, at(values, 0))
    IN \A index \in 0..(Len(values) - 1) :
           values[index + 1] = at(order, index + offset)

\* mutant of isStraight: a single fixed ace-high order, no ace-low pass
isStraight_aceHighOnly(cs) == straightUnder(cs, TRUE)

\* mutant of isStraight: a single ace-low order, no ace-high pass
isStraight_aceLowOnly(cs) == straightUnder(cs, FALSE)

\* mutant of isStraight: the rank order is taken as circular
isStraight_circular(cs) ==
    \E start \in 0..(Len(CARD_ORDER_ACE_HIGH) - 1) :
        /\ \A i \in 1..Len(cs) : \A j \in 1..Len(cs) :
               i # j => cs[i].value # cs[j].value
        /\ \A i \in 1..Len(cs) : \E k \in 0..(Len(cs) - 1) :
               cs[i].value =
                   at(CARD_ORDER_ACE_HIGH, (start + k) % Len(CARD_ORDER_ACE_HIGH))

\* the loop runs i = 0 (ace low), then i = 1 (ace high)
isStraight(cs) == straightUnder(cs, FALSE) \/ straightUnder(cs, TRUE)

\* mutant of isRoyalFlush: the top four labels are required, not the top five
isRoyalFlush_topFour(cs) ==
    IF ~isFlush(cs) THEN FALSE
    ELSE LET order == cardOrder(TRUE)
             royalFlush == SubSeq(order, Len(order) - 3, Len(order))
         IN \A k \in 1..Len(royalFlush) :
                \E i \in 1..Len(cs) : cs[i].value = royalFlush[k]

isRoyalFlush(cs) ==
    IF ~isFlush(cs) THEN FALSE
    ELSE LET order == cardOrder(TRUE)
             royalFlush == SubSeq(order, Len(order) - 4, Len(order))
         IN \A k \in 1..Len(royalFlush) :
                \E i \in 1..Len(cs) : cs[i].value = royalFlush[k]

isStraightFlush(cs) == isFlush(cs) /\ isStraight(cs)

\* mutant of isOfAKind: a rank held count times or more is accepted
isOfAKind_atLeast(cs, count) ==
    LET counts == countCards(cs)
    IN \E v \in DOMAIN counts : counts[v] >= count

isOfAKind(cs, count) ==
    LET counts == countCards(cs)
    IN \E v \in DOMAIN counts : counts[v] = count

isFullHouse(cs) == isOfAKind(cs, 3) /\ isOfAKind(cs, 2)

\* mutant of isTwoPair: counts of two or more are taken as pairs
isTwoPair_atLeastTwo(cs) ==
    Cardinality({v \in DOMAIN countCards(cs) : countCards(cs)[v] >= 2}) = 2

isTwoPair(cs) ==
    LET counts == countCards(cs)
        pairs == {v \in DOMAIN counts : counts[v] = 2}
    IN Cardinality(pairs) = 2

\* mutant of isOnePair: a pair and nothing more
isOnePair_only(cs) ==
    LET counts == countCards(cs)
    IN Cardinality({v \in DOMAIN counts : counts[v] = 2}) = 1
           /\ \A v \in DOMAIN counts : counts[v] <= 2

isOnePair(cs) == isOfAKind(cs, 2)

\* mutant of highestHand: the earlier revision's fall-through result
highestHand_noHand(cs) ==
    IF isRoyalFlush(cs) THEN "Royal Flush"
    ELSE IF isStraightFlush(cs) THEN "Straight Flush"
    ELSE IF isOfAKind(cs, 4) THEN "Four of a Kind"
    ELSE IF isFullHouse(cs) THEN "Full House"
    ELSE IF isFlush(cs) THEN "Flush"
    ELSE IF isStraight(cs) THEN "Straight"
    ELSE IF isOfAKind(cs, 3) THEN "Three of a Kind"
    ELSE IF isTwoPair(cs) THEN "Two Pair"
    ELSE IF isOnePair(cs) THEN "One Pair"
    ELSE "no hand found"

\* mutant of highestHand: One Pair is tested before Two Pair
highestHand_pairFirst(cs) ==
    IF isRoyalFlush(cs) THEN "Royal Flush"
    ELSE IF isStraightFlush(cs) THEN "Straight Flush"
    ELSE IF isOfAKind(cs, 4) THEN "Four of a Kind"
    ELSE IF isFullHouse(cs) THEN "Full House"
    ELSE IF isFlush(cs) THEN "Flush"
    ELSE IF isStraight(cs) THEN "Straight"
    ELSE IF isOfAKind(cs, 3) THEN "Three of a Kind"
    ELSE IF isOnePair(cs) THEN "One Pair"
    ELSE IF isTwoPair(cs) THEN "Two Pair"
    ELSE "High Card"

highestHand(cs) ==
    IF isRoyalFlush(cs) THEN "Royal Flush"
    ELSE IF isStraightFlush(cs) THEN "Straight Flush"
    ELSE IF isOfAKind(cs, 4) THEN "Four of a Kind"
    ELSE IF isFullHouse(cs) THEN "Full House"
    ELSE IF isFlush(cs) THEN "Flush"
    ELSE IF isStraight(cs) THEN "Straight"
    ELSE IF isOfAKind(cs, 3) THEN "Three of a Kind"
    ELSE IF isTwoPair(cs) THEN "Two Pair"
    ELSE IF isOnePair(cs) THEN "One Pair"
    ELSE "High Card"

(***************************************************************************)
(* The hands the model deals.                                              *)
(***************************************************************************)
\* how many of the suit patterns below are dealt
NumSuitPatterns == 4

\* suits of the five cards of a deal, lowest rank first
SuitPatterns ==
    <<  <<"SPADES", "SPADES", "SPADES", "SPADES", "SPADES">>,
        <<"SPADES", "HEARTS", "DIAMONDS", "CLUBS", "SPADES">>,
        <<"CLUBS", "CLUBS", "CLUBS", "DIAMONDS", "CLUBS">>,
        <<"HEARTS", "HEARTS", "HEARTS", "HEARTS", "DIAMONDS">>,
        <<"DIAMONDS", "CLUBS", "DIAMONDS", "CLUBS", "DIAMONDS">>  >>

DealtPatterns ==
    {SuitPatterns[k] : k \in 1..(IF NumSuitPatterns < Len(SuitPatterns)
                                 THEN NumSuitPatterns ELSE Len(SuitPatterns))}

\* the order in which the five cards of a deal reach the caller
DealOrder == <<4, 1, 5, 2, 3>>

\* the hand of ranks r (lowest first, by ace-high index) and suits s, as dealt
Deal(r, s) ==
    [i \in 1..5 |-> [value |-> CARD_ORDER_ACE_HIGH[r[DealOrder[i]]],
                     suit |-> s[DealOrder[i]]]]

\* the rank multisets of five cards over the rank indices pool
RankMultisets(pool) ==
    {r \in [1..5 -> pool] : \A i \in 1..4 : r[i] <= r[i + 1]}

\* every rank multiset of the 13-label vocabulary
DealInputs ==
    {Deal(r, s) : r \in RankMultisets(1..Len(CARD_ORDER_ACE_HIGH)),
                  s \in DealtPatterns}

\* rank indices of 2, 3, 4, 5, QUEEN, KING, ACE
SessionPool == {1, 2, 3, 4, 11, 12, 13}

SessionInputs ==
    {Deal(r, s) : r \in RankMultisets(SessionPool), s \in DealtPatterns}

\* the rank multisets of the test cases of script.js, and the three runs of
\* five that wrap around the ace
PermRanks ==
    {   <<9, 10, 11, 12, 13>>,    \* 10 J Q K A
        <<1, 2, 3, 4, 13>>,       \* 2 3 4 5 A
        <<1, 6, 6, 6, 6>>,        \* 2 7 7 7 7
        <<4, 4, 6, 6, 6>>,        \* 5 5 7 7 7
        <<5, 6, 8, 9, 11>>,       \* 6 7 9 10 Q
        <<3, 4, 5, 6, 7>>,        \* 4 5 6 7 8
        <<1, 1, 1, 2, 7>>,        \* 2 2 2 3 8
        <<10, 10, 11, 11, 13>>,   \* J J Q Q A
        <<3, 6, 9, 12, 12>>,      \* 4 7 10 K K
        <<4, 7, 8, 9, 11>>,       \* 5 8 9 10 Q
        <<1, 10, 11, 12, 13>>,    \* 2 J Q K A
        <<1, 2, 11, 12, 13>>,     \* 2 3 Q K A
        <<1, 2, 3, 12, 13>>  }    \* 2 3 4 K A

PermInputs == {Deal(r, s) : r \in PermRanks, s \in DealtPatterns}

\* the values isOfAKind is called with
Counts == {2, 3, 4}

(***************************************************************************)
(* Operations on a Hand.                                                   *)
(***************************************************************************)
\* what a call on the Hand leaves alone when the caller keeps no array
handOnly == <<built, statics, held, game, other>>

Sort(ace_high) ==
    /\ cards' = sort(cards, ace_high)
    /\ args' = <<ace_high>>
    /\ called' = "sort"
    /\ returned' = cards'
    /\ UNCHANGED input
    /\ UNCHANGED handOnly

ToSorted(ace_high) ==
    /\ args' = <<ace_high>>
    /\ called' = "toSorted"
    /\ returned' = toSorted(cards, ace_high)
    /\ UNCHANGED <<input, cards>>
    /\ UNCHANGED handOnly

CountCards ==
    /\ args' = <<>>
    /\ called' = "countCards"
    /\ returned' = countCards(cards)
    /\ UNCHANGED <<input, cards>>
    /\ UNCHANGED handOnly

IsFlush ==
    /\ args' = <<>>
    /\ called' = "isFlush"
    /\ returned' = readsFirstCard(cards, isFlush(cards))
    /\ UNCHANGED <<input, cards>>
    /\ UNCHANGED handOnly

\* mutant of isStraightLeaves: the passes sort the Hand itself
isStraightLeaves_sortedInPlace(cs) ==
    IF straightUnder(cs, FALSE) THEN sort(cs, FALSE) ELSE sort(sort(cs, FALSE), TRUE)

\* #cards after isStraight(): each pass sorts a copy (this.toSorted)
isStraightLeaves(cs) == cs

IsStraight ==
    /\ args' = <<>>
    /\ called' = "isStraight"
    /\ returned' = isStraight(cards)
    /\ cards' = isStraightLeaves(cards)
    /\ UNCHANGED input
    /\ UNCHANGED handOnly

IsRoyalFlush ==
    /\ args' = <<>>
    /\ called' = "isRoyalFlush"
    /\ returned' = readsFirstCard(cards, isRoyalFlush(cards))
    /\ UNCHANGED <<input, cards>>
    /\ UNCHANGED handOnly

IsStraightFlush ==
    /\ args' = <<>>
    /\ called' = "isStraightFlush"
    /\ returned' = readsFirstCard(cards, isStraightFlush(cards))
    /\ UNCHANGED <<input, cards>>
    /\ UNCHANGED handOnly

IsOfAKind(count) ==
    /\ args' = <<count>>
    /\ called' = "isOfAKind(" \o ToString(count) \o ")"
    /\ returned' = isOfAKind(cards, count)
    /\ UNCHANGED <<input, cards>>
    /\ UNCHANGED handOnly

IsFullHouse ==
    /\ args' = <<>>
    /\ called' = "isFullHouse"
    /\ returned' = isFullHouse(cards)
    /\ UNCHANGED <<input, cards>>
    /\ UNCHANGED handOnly

IsTwoPair ==
    /\ args' = <<>>
    /\ called' = "isTwoPair"
    /\ returned' = isTwoPair(cards)
    /\ UNCHANGED <<input, cards>>
    /\ UNCHANGED handOnly

IsOnePair ==
    /\ args' = <<>>
    /\ called' = "isOnePair"
    /\ returned' = isOnePair(cards)
    /\ UNCHANGED <<input, cards>>
    /\ UNCHANGED handOnly

HighestHand ==
    /\ args' = <<>>
    /\ called' = "highestHand"
    /\ returned' = readsFirstCard(cards, highestHand(cards))
    /\ UNCHANGED <<input, cards>>
    /\ UNCHANGED handOnly

\* new Hand(...) over the cards of the hand with two neighbours exchanged
NewHand(i) ==
    /\ cards' = [cards EXCEPT ![i] = cards[i + 1], ![i + 1] = cards[i]]
    /\ called' = "new"
    /\ args' = <<cards'>>
    /\ returned' = Undefined
    /\ UNCHANGED input
    /\ UNCHANGED handOnly

\* the calls that only read the Hand
Query ==
    \/ CountCards
    \/ IsFlush
    \/ IsStraight
    \/ IsRoyalFlush
    \/ IsStraightFlush
    \/ \E count \in Counts : IsOfAKind(count)
    \/ IsFullHouse
    \/ IsTwoPair
    \/ IsOnePair
    \/ HighestHand

\* the static arrays as class Hand declares them
Statics0 == [high |-> CARD_ORDER_ACE_HIGH, low |-> CARD_ORDER_ACE_LOW]

\* the caller holds no array of the Hand
NoHeld == [ref |-> "none", of |-> "none", arr |-> <<>>]

\* no page is open
NoGame == [pc |-> "closed"]

\* the state after new Hand(input)
Constructed(inputs) ==
    /\ input \in inputs
    /\ cards = input
    /\ called = "new"
    /\ args = <<input>>
    /\ returned = Undefined
    /\ built = TRUE
    /\ statics = Statics0
    /\ held = NoHeld
    /\ other = <<>>
    /\ game = NoGame


(***************************************************************************)
(* Spec: one Hand and any sequence of calls on it.                         *)
(***************************************************************************)
Init == Constructed(SessionInputs)

Next ==
    \/ \E ace_high \in BOOLEAN : Sort(ace_high)
    \/ \E ace_high \in BOOLEAN : ToSorted(ace_high)
    \/ Query

Spec == Init /\ [][Next]_vars

(***************************************************************************)
(* SpecDeal: a Hand of every rank multiset; as in a test case of test(),    *)
(* each Hand is built for one call.                                        *)
(***************************************************************************)
InitDeal == Constructed(DealInputs)

NextDeal == called = "new" /\ Query

SpecDeal == InitDeal /\ [][NextDeal]_vars

(***************************************************************************)
(* SpecPerm: Hands built from every order of the same five cards.          *)
(***************************************************************************)
InitPerm == Constructed(PermInputs)

NextPerm ==
    \/ \E i \in 1..4 : NewHand(i)
    \/ Query

SpecPerm == InitPerm /\ [][NextPerm]_vars

(***************************************************************************)
(* The constructors of Card and Hand.  A JavaScript value handed to a      *)
(* constructor is a record [t, s]: its type tag and, for a string or a     *)
(* number, its text.  Objects are records with a field kind.               *)
(***************************************************************************)
Str(text) == [t |-> "string", s |-> text]
Num(text) == [t |-> "number", s |-> text]
JsUndefined == [t |-> "undefined", s |-> ""]
JsNull == [t |-> "null", s |-> ""]

\* !x is false
truthy(x) ==
    CASE x.t = "string" -> x.s # ""
      [] x.t = "number" -> x.s \notin {"0", "NaN"}
      [] OTHER -> FALSE

\* typeof x
typeOf(x) == IF x.t = "null" THEN "object" ELSE x.t

NoThrow == ""

\* mutant of CardThrows: the image is stored unchecked
CardThrows_imageUnchecked(code, suit, value, image) ==
    IF ~truthy(code) \/ typeOf(code) # "string" \/ Len(code.s) # 2
        THEN "Invalid code"
    ELSE IF ~truthy(suit) \/ typeOf(suit) # "string" THEN "Invalid suit"
    ELSE IF ~truthy(value) \/ typeOf(value) # "string" THEN "Invalid value"
    ELSE NoThrow

\* the message of the TypeError the Card constructor throws, NoThrow if none
CardThrows(code, suit, value, image) ==
    IF ~truthy(code) \/ typeOf(code) # "string" \/ Len(code.s) # 2
        THEN "Invalid code"
    ELSE IF ~truthy(suit) \/ typeOf(suit) # "string" THEN "Invalid suit"
    ELSE IF ~truthy(value) \/ typeOf(value) # "string" THEN "Invalid value"
    ELSE IF ~truthy(image) \/ typeOf(image) # "string" THEN "Invalid image"
    ELSE NoThrow

\* the object the Card constructor leaves when it does not throw
Card(code, suit, value, image) ==
    [kind |-> "Card", code |-> code, suit |-> suit, value |-> value,
     image |-> image]

Thrown(message) == [kind |-> "TypeError", message |-> message]

\* x instanceof Card
instanceOfCard(x) == "kind" \in DOMAIN x /\ x.kind = "Card"

\* mutant of HandThrows: only the first element is tested
HandThrows_firstOnly(arr) ==
    IF arr # <<>> /\ ~instanceOfCard(arr[1])
        THEN "cards must be an array of Card."
    ELSE NoThrow

\* the message of the TypeError the Hand constructor throws, NoThrow if none
HandThrows(arr) ==
    IF ~(\A i \in 1..Len(arr) : instanceOfCard(arr[i]))
        THEN "cards must be an array of Card."
    ELSE NoThrow

\* the cards of a Hand as the classifier reads them through the getters
faces(cs) == [i \in 1..Len(cs) |-> [value |-> cs[i].value.s, suit |-> cs[i].suit.s]]

\* the longest array the caller assembles
MaxCards == 6

\* the arguments the caller constructs Cards from
Codes == {Str("KH"), Str("K"), JsUndefined}
Suits == {Str("HEARTS"), Str("")}
Values == {Str("KING"), Str("1"), Num("7")}
Images == {Str("https://deckofcardsapi.com/static/img/KH.png"), JsNull}

\* what the caller puts in the array besides Cards: an object with the fields
\* of a card that no Card constructor made
NonCards ==
    {[kind |-> "Object", code |-> Str("KH"), suit |-> Str("HEARTS"),
      value |-> Str("KING"), image |-> Str("KH.png")]}

\* new Card(code, suit, value, image); the caller appends the Card to its array
NewCard(code, suit, value, image) ==
    /\ Len(input) < MaxCards
    /\ called' = "Card"
    /\ args' = <<code, suit, value, image>>
    /\ LET message == CardThrows(code, suit, value, image)
       IN IF message # NoThrow
          THEN returned' = Thrown(message) /\ UNCHANGED input
          ELSE /\ returned' = Card(code, suit, value, image)
               /\ input' = Append(input, returned')
    /\ UNCHANGED <<cards, built, statics, held, game, other>>

\* the caller appends something that is no Card, once per array
PushOther(x) ==
    /\ Len(input) < MaxCards
    /\ \A i \in 1..Len(input) : instanceOfCard(input[i])
    /\ called' = "push"
    /\ args' = <<x>>
    /\ returned' = [kind |-> "undefined"]
    /\ input' = Append(input, x)
    /\ UNCHANGED <<cards, built, statics, held, game, other>>

\* new Hand(input)
HandConstructor ==
    /\ called' = "new"
    /\ args' = <<input>>
    /\ LET message == HandThrows(input)
       IN IF message # NoThrow
          THEN returned' = Thrown(message) /\ UNCHANGED <<cards, built>>
          ELSE /\ cards' = input
               /\ built' = TRUE
               /\ returned' = [kind |-> "Hand"]
    /\ UNCHANGED <<input, statics, held, game, other>>

\* highestHand() on the Hand that was built
HighestHandOfBuilt ==
    /\ built
    /\ called' = "highestHand"
    /\ args' = <<>>
    /\ returned' =
           IF cards = <<>> THEN Thrown("Cannot read properties of undefined")
           ELSE [kind |-> "string", s |-> highestHand(faces(cards))]
    /\ UNCHANGED <<input, cards, built, statics, held, game, other>>

InitCtor ==
    /\ input = <<>>
    /\ cards = <<>>
    /\ built = FALSE
    /\ called = "start"
    /\ args = <<>>
    /\ returned = [kind |-> "undefined"]
    /\ statics = Statics0
    /\ held = NoHeld
    /\ other = <<>>
    /\ game = NoGame

NextCtor ==
    \/ \E code \in Codes : \E suit \in Suits : \E value \in Values :
           \E image \in Images : NewCard(code, suit, value, image)
    \/ \E x \in NonCards : PushOther(x)
    \/ HandConstructor
    \/ HighestHandOfBuilt

SpecCtor == InitCtor /\ [][NextCtor]_vars

(***************************************************************************)
(* SpecShared: the arrays the Hand hands to its caller.  held names the    *)
(* array the caller keeps: ref says which array object it is ("cards": the *)
(* Hand's #cards itself, "high"/"low": a static array of class Hand,       *)
(* "copy": an array of the caller's own), arr is its content.  A write     *)
(* through held changes whatever shares the array.                         *)
(***************************************************************************)
\* get cards() returns this.#cards, and sort() returns the array it sorted
cardsRef == "cards"

\* toSorted() returns a new array
toSortedRef == "copy"

\* mutant of cardOrderRef: the static array itself is returned
cardOrderRef_static(ace_high) == IF ace_high THEN "high" ELSE "low"

\* cardOrder() returns [...order], a new array
cardOrderRef(ace_high) == "copy"

\* how many elements the caller removes from an array it received
MaxPops == 1

\* the length of held.arr when the caller received it
FullLength == IF held.of = "order" THEN Len(CARD_ORDER_ACE_HIGH) ELSE 5

\* the hands of SpecShared: the wheel in one suit, a full house in four
SharedInputs ==
    {Deal(<<1, 2, 3, 4, 13>>, SuitPatterns[1]),
     Deal(<<4, 4, 6, 6, 6>>, SuitPatterns[2])}

\* hand.cards
GetCards ==
    /\ called' = "cards"
    /\ args' = <<>>
    /\ returned' = cards
    /\ held' = [ref |-> cardsRef, of |-> "cards", arr |-> cards]
    /\ UNCHANGED <<input, cards, statics, built, game, other>>

\* hand.sort(ace_high), the caller keeping the result
SortAndHold(ace_high) ==
    /\ cards' = sort(cards, ace_high)
    /\ args' = <<ace_high>>
    /\ called' = "sort"
    /\ returned' = cards'
    /\ held' = [ref |-> cardsRef, of |-> "cards", arr |-> returned']
    /\ UNCHANGED <<input, statics, built, game, other>>

\* hand.toSorted(ace_high), the caller keeping the result
ToSortedAndHold(ace_high) ==
    /\ args' = <<ace_high>>
    /\ called' = "toSorted"
    /\ returned' = toSorted(cards, ace_high)
    /\ held' = [ref |-> toSortedRef, of |-> "cards", arr |-> returned']
    /\ UNCHANGED <<input, cards, statics, built, game, other>>

\* Hand.cardOrder(ace_high); the caller keeps the result or drops it
CardOrder(ace_high, keep) ==
    /\ called' = "cardOrder"
    /\ args' = <<ace_high>>
    /\ returned' = cardOrder(ace_high)
    /\ held' = IF keep
               THEN [ref |-> cardOrderRef(ace_high), of |-> "order", arr |-> returned']
               ELSE held
    /\ UNCHANGED <<input, cards, statics, built, game, other>>

\* the content of an array after arr.pop() and after arr.reverse()
written(arr, op) ==
    IF op = "pop" THEN SubSeq(arr, 1, Len(arr) - 1)
    ELSE [i \in 1..Len(arr) |-> arr[Len(arr) + 1 - i]]

\* the caller writes to the array it holds: held.arr.pop() or held.arr.reverse()
WriteHeld(op) ==
    /\ held.ref # "none"
    /\ op = "pop" => Len(held.arr) > FullLength - MaxPops
    /\ LET content == written(held.arr, op)
       IN /\ held' = [held EXCEPT !.arr = content]
          /\ cards' = IF held.ref = "cards" THEN content ELSE cards
          /\ statics' = IF held.ref = "high" THEN [statics EXCEPT !.high = content]
                        ELSE IF held.ref = "low" THEN [statics EXCEPT !.low = content]
                        ELSE statics
          /\ returned' = IF op = "pop" THEN at(held.arr, Len(held.arr) - 1) ELSE content
    /\ called' = "held." \o op
    /\ args' = <<>>
    /\ UNCHANGED <<input, built, game, other>>

InitShared == Constructed(SharedInputs)

NextShared ==
    \/ GetCards
    \/ \E ace_high \in BOOLEAN : SortAndHold(ace_high)
    \/ \E ace_high \in BOOLEAN : ToSortedAndHold(ace_high)
    \/ \E ace_high \in BOOLEAN : \E keep \in BOOLEAN : CardOrder(ace_high, keep)
    \/ \E op \in {"pop", "reverse"} : WriteHeld(op)
    \/ Query

SpecShared == InitShared /\ [][NextShared]_vars

(***************************************************************************)
(* SpecGame: the page.  Revision "script.js" runs main once: a new deck, a *)
(* draw of five, the cards, the label.  Revision "README.md" has classes   *)
(* Deck (load, reshuffle, draw with reshuffle) and Game (load, the click   *)
(* handler handleDrawHand).  game is a record: the browser's localStorage  *)
(* entry deck_id (storage), the cards left in each deck of the remote API  *)
(* (server, -1 for a deck that does not exist), the Deck object (deck),    *)
(* where main/load and the click handler stand (page, handler), the text   *)
(* of the result element (label) and the button's disabled flag.  Every    *)
(* await is the end of one step.  The Hand of the page is input (the cards *)
(* drawn), cards and built.                                                *)
(***************************************************************************)
Revisions == {"script.js", "README.md"}

\* cards of a new or reshuffled deck, and cards of a hand
DeckSize == 52
HandSize == 5

\* how many decks the remote API hands out
NumDeckIds == 2

AllDeckIds == <<"3p40paa87x90", "aw8zk1o3mnb2", "k7q2v9x1m4z8", "x1y2z3a4b5c6">>

DeckIds ==
    {AllDeckIds[k] : k \in 1..(IF NumDeckIds < Len(AllDeckIds)
                               THEN NumDeckIds ELSE Len(AllDeckIds))}

NoDeck == [deckId |-> "", remaining |-> 0, shuffled |-> FALSE]

\* the hands the remote API deals
GameDeals ==
    {Deal(<<9, 10, 11, 12, 13>>, SuitPatterns[1]),
     Deal(<<4, 4, 6, 6, 6>>, SuitPatterns[2])}

Min(a, b) == IF a < b THEN a ELSE b

\* mutant of loadRequest: a new deck at every load
loadRequest_alwaysNew(revision, storage) == "Deck.new"

\* the request main (script.js) or Game.load (README.md) awaits first
loadRequest(revision, storage) ==
    IF revision = "README.md" /\ storage # "" THEN "Deck.load" ELSE "Deck.new"

\* the page after the synchronous part of main
Open(revision, storage, server) ==
    [revision |-> revision, page |-> "loading",
     awaits |-> loadRequest(revision, storage),
     storage |-> storage, server |-> server, deck |-> NoDeck,
     atCall |-> NoDeck,
     handler |-> "idle", label |-> "", disabled |-> FALSE]

\* a step of the page that calls nothing on a Hand
pageStep(name) ==
    /\ called' = name
    /\ args' = <<>>
    /\ returned' = Undefined
    /\ UNCHANGED <<statics, held, other>>

\* the step at which a draw request settles: draw returns the Cards or throws
drawStep(ok) ==
    /\ called' = "draw"
    /\ args' = <<>>
    /\ returned' = IF ok THEN "Card[]" ELSE "Error"
    /\ UNCHANGED <<statics, held, other>>

\* Deck.new() settles: the API made a deck, or the request failed; main of
\* script.js goes on to call deck.draw(5)
NewDeckArrives(ok) ==
    /\ game.page = "loading" /\ game.awaits = "Deck.new"
    /\ IF ~ok THEN game' = [game EXCEPT !.page = "failed"]
       ELSE \E id \in DeckIds :
              /\ game.server[id] = -1
              /\ game' = [game EXCEPT
                     !.server[id] = DeckSize,
                     !.deck = [deckId |-> id, remaining |-> DeckSize, shuffled |-> TRUE],
                     !.atCall = IF game.revision = "README.md" THEN @
                                ELSE [deckId |-> id, remaining |-> DeckSize,
                                      shuffled |-> TRUE],
                     !.storage = IF game.revision = "README.md" THEN id ELSE @,
                     !.page = IF game.revision = "README.md" THEN "ready" ELSE "drawing"]
    /\ pageStep("Deck.new")
    /\ UNCHANGED <<input, cards, built>>

\* Deck.load(deckId) settles: the API reshuffled the stored deck, or failed
LoadDeckArrives(ok) ==
    /\ game.page = "loading" /\ game.awaits = "Deck.load"
    /\ game' = IF ~ok THEN [game EXCEPT !.page = "failed"]
               ELSE [game EXCEPT
                     !.server[game.storage] = DeckSize,
                     !.deck = [deckId |-> game.storage, remaining |-> DeckSize,
                               shuffled |-> TRUE],
                     !.page = "ready"]
    /\ pageStep("Deck.load")
    /\ UNCHANGED <<input, cards, built>>

\* mutant of beginDraw: draw(5), the reshuffle flag left at its default
beginDraw_noReshuffle(g) ==
    IF g.deck = NoDeck THEN [g EXCEPT !.handler = "failed"]
    ELSE [g EXCEPT !.handler = "drawing", !.atCall = g.deck]

\* this.#deck.draw(5, true) up to its first await; atCall keeps the Deck's
\* fields as they are when draw is called
beginDraw(g) ==
    IF g.deck = NoDeck THEN [g EXCEPT !.handler = "failed"]
    ELSE IF g.deck.remaining < HandSize
         THEN [g EXCEPT !.handler = "reshuffling", !.atCall = g.deck]
    ELSE [g EXCEPT !.handler = "drawing", !.atCall = g.deck]

\* a click on the button: handleDrawHand up to its first await
Click ==
    /\ game.revision = "README.md"
    /\ ~game.disabled
    /\ LET g == [game EXCEPT !.disabled = TRUE, !.label = ""]
       IN game' = IF built THEN [g EXCEPT !.handler = "concealing"] ELSE beginDraw(g)
    /\ pageStep("click")
    /\ UNCHANGED <<input, cards, built>>

\* concealHand() is over
ConcealDone ==
    /\ game.handler = "concealing"
    /\ game' = beginDraw(game)
    /\ pageStep("concealHand")
    /\ UNCHANGED <<input, cards, built>>

\* mutant of failedRequest: the count is written before the response is tested
failedRequest_countWritten(g) ==
    [g EXCEPT !.handler = "failed", !.deck.remaining = 0]

\* #fetchJSON throws on a response that is not ok: reshuffle or draw, and the
\* handler that awaits it, end there
failedRequest(g) == [g EXCEPT !.handler = "failed"]

\* reshuffle() settles
ReshuffleArrives(ok) ==
    /\ game.handler = "reshuffling"
    /\ game' = IF ~ok THEN failedRequest(game)
               ELSE [game EXCEPT
                     !.server[game.deck.deckId] = DeckSize,
                     !.deck.remaining = DeckSize,
                     !.deck.shuffled = TRUE,
                     !.handler = "drawing"]
    /\ pageStep("reshuffle")
    /\ UNCHANGED <<input, cards, built>>

\* mutant of wrongCount: the Hand is taken as it comes
wrongCount_unchecked(cs) == FALSE

\* this.#playerHand.cards.length != 5
wrongCount(cs) == Len(cs) # HandSize

\* the draw request of handleDrawHand settles: the API dealt what the deck
\* had, at most five; the Hand is built, counted and sorted
DrawArrives(ok, deal) ==
    /\ game.handler = "drawing"
    /\ IF ~ok
       THEN /\ game' = failedRequest(game)
            /\ UNCHANGED <<input, cards, built>>
       ELSE LET id == game.deck.deckId
                n == Min(HandSize, game.server[id])
                drawn == SubSeq(deal, 1, n)
            IN /\ input' = drawn
               /\ built' = TRUE
               /\ cards' = IF wrongCount(drawn) THEN drawn ELSE sort(drawn, TRUE)
               /\ game' = [game EXCEPT
                      !.server[id] = @ - n,
                      !.deck.remaining = game.server[id] - n,
                      !.handler = IF wrongCount(drawn) THEN "failed" ELSE "revealing"]
    /\ drawStep(ok)

\* revealHand() is over: the label is computed and shown, the button enabled
RevealDone ==
    /\ game.handler = "revealing"
    /\ called' = "highestHand"
    /\ args' = <<>>
    /\ returned' = readsFirstCard(cards, highestHand(cards))
    /\ game' = IF returned' = TypeError THEN [game EXCEPT !.handler = "failed"]
               ELSE [game EXCEPT !.label = returned', !.disabled = FALSE,
                                 !.handler = "idle"]
    /\ UNCHANGED <<input, cards, built, statics, held, other>>

\* script.js: deck.draw(5) settles; the Hand is built and sorted
ScriptDrawArrives(ok, deal) ==
    /\ game.revision = "script.js" /\ game.page = "drawing"
    /\ IF ~ok
       THEN /\ game' = [game EXCEPT !.page = "failed"]
            /\ UNCHANGED <<input, cards, built>>
       ELSE LET id == game.deck.deckId
                n == Min(HandSize, game.server[id])
                drawn == SubSeq(deal, 1, n)
            IN /\ input' = drawn
               /\ built' = TRUE
               /\ cards' = sort(drawn, TRUE)
               /\ game' = [game EXCEPT
                      !.server[id] = @ - n,
                      !.deck.remaining = game.server[id] - n,
                      !.page = "displaying"]
    /\ drawStep(ok)

\* script.js: displayCards is over; displayHighestHand shows the label
ScriptDisplayed ==
    /\ game.revision = "script.js" /\ game.page = "displaying"
    /\ called' = "highestHand"
    /\ args' = <<>>
    /\ returned' = readsFirstCard(cards, highestHand(cards))
    /\ game' = IF returned' = TypeError THEN [game EXCEPT !.page = "failed"]
               ELSE [game EXCEPT !.label = returned', !.page = "done"]
    /\ UNCHANGED <<input, cards, built, statics, held, other>>

\* another tab of the page, which shares localStorage, draws a hand from the
\* stored deck or reshuffles it
OtherTab(op) ==
    /\ game.revision = "README.md"
    /\ game.storage # ""
    /\ LET left == game.server[game.storage]
       IN game' = [game EXCEPT !.server[game.storage] =
                       IF op = "draw" THEN left - Min(HandSize, left) ELSE DeckSize]
    /\ pageStep("other tab")
    /\ UNCHANGED <<input, cards, built>>

\* the page is loaded again: localStorage and the remote decks stay
Reload ==
    /\ game' = Open(game.revision, game.storage, game.server)
    /\ input' = <<>>
    /\ cards' = <<>>
    /\ built' = FALSE
    /\ pageStep("reload")

InitGame ==
    /\ \E revision \in Revisions :
           game = Open(revision, "", [id \in DeckIds |-> -1])
    /\ input = <<>>
    /\ cards = <<>>
    /\ built = FALSE
    /\ called = "open"
    /\ args = <<>>
    /\ returned = Undefined
    /\ statics = Statics0
    /\ held = NoHeld
    /\ other = <<>>

NextGame ==
    \/ \E ok \in BOOLEAN : NewDeckArrives(ok)
    \/ \E ok \in BOOLEAN : LoadDeckArrives(ok)
    \/ Click
    \/ ConcealDone
    \/ \E ok \in BOOLEAN : ReshuffleArrives(ok)
    \/ \E ok \in BOOLEAN : \E deal \in GameDeals : DrawArrives(ok, deal)
    \/ RevealDone
    \/ \E ok \in BOOLEAN : \E deal \in GameDeals : ScriptDrawArrives(ok, deal)
    \/ ScriptDisplayed
    \/ \E op \in {"draw", "shuffle"} : OtherTab(op)
    \/ Reload

SpecGame == InitGame /\ [][NextGame]_vars

(***************************************************************************)
(* SpecTwo: two Hands built from one array of the caller.  cards is the    *)
(* #cards of the first Hand, other that of the second, input the caller's  *)
(* array.  A write to an array reaches every holder of that array.         *)
(***************************************************************************)
Hands == {"first", "second"}

\* mutant of storedArray: the constructor keeps the caller's array
storedArray_callers(hand) == "input"

\* the array a Hand stores: this.#cards = [...cards], an array of its own
storedArray(hand) == hand

\* the content of the #cards of a Hand
stored(hand) == IF hand = "first" THEN cards ELSE other

\* the hands of SpecTwo
TwoInputs == SharedInputs \cup {Deal(<<9, 10, 11, 12, 13>>, SuitPatterns[1])}

\* the calls of SpecTwo that only read a Hand
Predicates ==
    {"isFlush", "isStraight", "isRoyalFlush", "isStraightFlush", "isFullHouse",
     "isTwoPair", "isOnePair", "highestHand"}

resultOf(name, cs) ==
    CASE name = "isFlush" -> isFlush(cs)
      [] name = "isStraight" -> isStraight(cs)
      [] name = "isRoyalFlush" -> isRoyalFlush(cs)
      [] name = "isStraightFlush" -> isStraightFlush(cs)
      [] name = "isFullHouse" -> isFullHouse(cs)
      [] name = "isTwoPair" -> isTwoPair(cs)
      [] name = "isOnePair" -> isOnePair(cs)
      [] name = "highestHand" -> highestHand(cs)

\* hand.sort(ace_high): the array the Hand stores is sorted in place
SortOf(hand, ace_high) ==
    /\ LET array == storedArray(hand)
           content == sort(stored(hand), ace_high)
       IN /\ input' = IF array = "input" THEN content ELSE input
          /\ cards' = IF storedArray("first") = array THEN content ELSE cards
          /\ other' = IF storedArray("second") = array THEN content ELSE other
          /\ returned' = content
    /\ called' = "sort"
    /\ args' = <<hand, ace_high>>
    /\ UNCHANGED <<built, statics, held, game>>

\* hand.toSorted(ace_high)
ToSortedOf(hand, ace_high) ==
    /\ called' = "toSorted"
    /\ args' = <<hand, ace_high>>
    /\ returned' = toSorted(stored(hand), ace_high)
    /\ UNCHANGED <<input, cards, other, built, statics, held, game>>

\* a predicate or highestHand() of one Hand
PredicateOf(hand, name) ==
    /\ called' = name
    /\ args' = <<hand>>
    /\ returned' = resultOf(name, stored(hand))
    /\ UNCHANGED <<input, cards, other, built, statics, held, game>>

\* the state after new Hand(input) twice
InitTwo ==
    /\ input \in TwoInputs
    /\ cards = input
    /\ other = input
    /\ called = "new"
    /\ args = <<"second", input>>
    /\ returned = Undefined
    /\ built = TRUE
    /\ statics = Statics0
    /\ held = NoHeld
    /\ game = NoGame

NextTwo ==
    \/ \E hand \in Hands : \E ace_high \in BOOLEAN : SortOf(hand, ace_high)
    \/ \E hand \in Hands : \E ace_high \in BOOLEAN : ToSortedOf(hand, ace_high)
    \/ \E hand \in Hands : \E name \in Predicates : PredicateOf(hand, name)

SpecTwo == InitTwo /\ [][NextTwo]_vars

(***************************************************************************)
(* The Hand classifier of the later revision (README.md), as functions of  *)
(* the stored sequence cs.  It has rankOrder for cardOrder and countByRank *)
(* for countCards.                                                         *)
(***************************************************************************)
README_CARD_ORDER_ACE_HIGH ==
    <<"2", "3", "4", "5", "6", "7", "8", "9", "10", "JACK", "QUEEN", "KING", "ACE">>

README_CARD_ORDER_ACE_LOW ==
    <<"ACE", "2", "3", "4", "5", "6", "7", "8", "9", "10", "JACK", "QUEEN", "KING">>

\* mutant of rankOrder: the argument is ignored
rankOrder_aceHighOnly(ace_high) == README_CARD_ORDER_ACE_HIGH

rankOrder(ace_high) ==
    IF ace_high THEN README_CARD_ORDER_ACE_HIGH ELSE README_CARD_ORDER_ACE_LOW

\* countByRank: the reduce over #cards, from the empty object
RECURSIVE countByRank(_)
countByRank(cs) ==
    IF cs = <<>> THEN <<>>
    ELSE LET obj == countByRank(SubSeq(cs, 1, Len(cs) - 1))
             value == cs[Len(cs)].value
         IN IF value \notin DOMAIN obj
            THEN [v \in DOMAIN obj \cup {value} |-> IF v = value THEN 1 ELSE obj[v]]
            ELSE [obj EXCEPT ![value] = @ + 1]

README_toSorted(cs, ace_high) == stableSort(cs, rankOrder(ace_high))

README_isFlush(cs) ==
    LET testSuit == cs[1].suit
    IN \A i \in 1..Len(cs) : cs[i].suit = testSuit

\* one pass of the loop of isStraight
README_straightUnder(cs, ace_high) ==
    LET order == rankOrder(ace_high)
        sorted == README_toSorted(cs, ace_high)
        values == [k \in 1..Len(sorted) |-> sorted[k].value]
        offset == indexOf(order, at(values, 0))
    IN \A index \in 0..(Len(values) - 1) :
           values[index + 1] = at(order, index + offset)

README_isStraight(cs) ==
    README_straightUnder(cs, FALSE) \/ README_straightUnder(cs, TRUE)

README_isRoyalFlush(cs) ==
    IF ~README_isFlush(cs) THEN FALSE
    ELSE LET order == rankOrder(TRUE)
             royalFlush == SubSeq(order, Len(order) - 4, Len(order))
         IN \A k \in 1..Len(royalFlush) :
                \E i \in 1..Len(cs) : cs[i].value = royalFlush[k]

README_isStraightFlush(cs) == README_isFlush(cs) /\ README_isStraight(cs)

README_isOfAKind(cs, count) ==
    LET counts == countByRank(cs)
    IN \E v \in DOMAIN counts : counts[v] = count

README_isFullHouse(cs) == README_isOfAKind(cs, 3) /\ README_isOfAKind(cs, 2)

README_isTwoPair(cs) ==
    LET counts == countByRank(cs)
        pairs == {v \in DOMAIN counts : counts[v] = 2}
    IN Cardinality(pairs) = 2

README_isOnePair(cs) == README_isOfAKind(cs, 2)

README_highestHand(cs) ==
    IF README_isRoyalFlush(cs) THEN "Royal Flush"
    ELSE IF README_isStraightFlush(cs) THEN "Straight Flush"
    ELSE IF README_isOfAKind(cs, 4) THEN "Four of a Kind"
    ELSE IF README_isFullHouse(cs) THEN "Full House"
    ELSE IF README_isFlush(cs) THEN "Flush"
    ELSE IF README_isStraight(cs) THEN "Straight"
    ELSE IF README_isOfAKind(cs, 3) THEN "Three of a Kind"
    ELSE IF README_isTwoPair(cs) THEN "Two Pair"
    ELSE IF README_isOnePair(cs) THEN "One Pair"
    ELSE "High Card"

(***************************************************************************)
(* Vocabulary of the properties.                                           *)
(***************************************************************************)
Labels ==
    {"Royal Flush", "Straight Flush", "Four of a Kind", "Full House", "Flush",
     "Straight", "Three of a Kind", "Two Pair", "One Pair", "High Card"}

\* the nine predicates in the priority order of the ranked list, and their labels
RankedPredicates(cs) ==
    <<isRoyalFlush(cs), isStraightFlush(cs), isOfAKind(cs, 4), isFullHouse(cs),
      isFlush(cs), isStraight(cs), isOfAKind(cs, 3), isTwoPair(cs), isOnePair(cs)>>

RankedLabels ==
    <<"Royal Flush", "Straight Flush", "Four of a Kind", "Full House", "Flush",
      "Straight", "Three of a Kind", "Two Pair", "One Pair">>

ValuesOf(cs) == {cs[i].value : i \in 1..Len(cs)}
SuitsOf(cs) == {cs[i].suit : i \in 1..Len(cs)}
OneSuit(cs) == Cardinality(SuitsOf(cs)) = 1
DistinctCards(cs) == \A i \in 1..Len(cs) : \A j \in 1..Len(cs) : i # j => cs[i] # cs[j]
SharesARank(cs) ==
    \E i \in 1..Len(cs) : \E j \in 1..Len(cs) : i # j /\ cs[i].value = cs[j].value

(***************************************************************************)
(* The standard poker ranking, computed from the rank-count multiset, the  *)
(* one-suit test and the run-of-five test, without the Hand's methods.     *)
(***************************************************************************)
PokerRank(v) ==
    CASE v = "2" -> 2 [] v = "3" -> 3 [] v = "4" -> 4 [] v = "5" -> 5
      [] v = "6" -> 6 [] v = "7" -> 7 [] v = "8" -> 8 [] v = "9" -> 9
      [] v = "10" -> 10 [] v = "JACK" -> 11 [] v = "QUEEN" -> 12
      [] v = "KING" -> 13 [] v = "ACE" -> 14

PokerRanks(cs) == {PokerRank(v) : v \in ValuesOf(cs)}

\* how many ranks are held exactly n times
RanksHeld(cs, n) ==
    Cardinality({v \in ValuesOf(cs) :
        Cardinality({i \in 1..Len(cs) : cs[i].value = v}) = n})

RunOfFive(cs) ==
    LET R == PokerRanks(cs)
    IN /\ Cardinality(R) = 5
       /\ \/ \E low \in 2..10 : R = low..(low + 4)
          \/ R = {14, 2, 3, 4, 5}

StandardCategory(cs) ==
    IF OneSuit(cs) /\ PokerRanks(cs) = 10..14 THEN "Royal Flush"
    ELSE IF OneSuit(cs) /\ RunOfFive(cs) THEN "Straight Flush"
    ELSE IF RanksHeld(cs, 4) = 1 THEN "Four of a Kind"
    ELSE IF RanksHeld(cs, 3) = 1 /\ RanksHeld(cs, 2) = 1 THEN "Full House"
    ELSE IF OneSuit(cs) THEN "Flush"
    ELSE IF RunOfFive(cs) THEN "Straight"
    ELSE IF RanksHeld(cs, 3) = 1 THEN "Three of a Kind"
    ELSE IF RanksHeld(cs, 2) = 2 THEN "Two Pair"
    ELSE IF RanksHeld(cs, 2) = 1 THEN "One Pair"
    ELSE "High Card"

(***************************************************************************)
(* Properties.                                                             *)
(***************************************************************************)
\* C1: on every Hand of five cards whose ranks are of the 13-label vocabulary,
\* highestHand() returns a value, and the value is one of the ten labels.
C1_OneOfTenLabels ==
    called = "highestHand" => returned \in Labels

C1_Witness ==
    /\ called = "highestHand"
    /\ returned = "High Card"
    /\ ValuesOf(cards) \subseteq {CARD_ORDER_ACE_HIGH[i] : i \in 1..13}

\* C2: highestHand() returns the label of the first predicate of the ranked
\* list that is true, and High Card exactly when none of the nine is true.
C2_FirstTruePredicateWins ==
    called = "highestHand" =>
        LET P == RankedPredicates(cards)
        IN /\ \A k \in 1..Len(RankedLabels) :
                  (returned = RankedLabels[k]) <=>
                      (P[k] /\ \A j \in 1..(k - 1) : ~P[j])
           /\ (returned = "High Card") <=> (\A k \in 1..Len(RankedLabels) : ~P[k])

\* a lower predicate (isOnePair) holds too, and the higher label is returned
C2_Witness ==
    /\ called = "highestHand"
    /\ returned = "Full House"
    /\ isOnePair(cards)
    /\ ~isTwoPair(cards)

\* C3: on five distinct cards of a standard deck highestHand() is the category
\* of the standard poker ranking.
C3_StandardRanking ==
    (called = "highestHand" /\ DistinctCards(cards)) =>
        returned = StandardCategory(cards)

C3_Witness ==
    /\ called = "highestHand"
    /\ DistinctCards(cards)
    /\ returned = "Four of a Kind"

\* C4: after any sequence of highestHand, sort and toSorted calls on a Hand,
\* highestHand() returns the label it returns right after construction.
C4_LabelSurvivesSorting ==
    called = "highestHand" => returned = highestHand(input)

\* the stored order was changed by sort before the call
C4_Witness ==
    /\ called = "highestHand"
    /\ cards # input
    /\ returned = "Straight"

\* C5: a Hand built from a permutation of five cards gives the same result for
\* every predicate and the same label as a Hand built from the original order.
C5_OrderOfConstructionIrrelevant ==
    /\ isFlush(cards) = isFlush(input)
    /\ isStraight(cards) = isStraight(input)
    /\ isRoyalFlush(cards) = isRoyalFlush(input)
    /\ isStraightFlush(cards) = isStraightFlush(input)
    /\ \A count \in Counts : isOfAKind(cards, count) = isOfAKind(input, count)
    /\ isFullHouse(cards) = isFullHouse(input)
    /\ isTwoPair(cards) = isTwoPair(input)
    /\ isOnePair(cards) = isOnePair(input)
    /\ highestHand(cards) = highestHand(input)

\* the Hand holds the original cards in reverse order
C5_Witness ==
    /\ called = "highestHand"
    /\ \A i \in 1..5 : cards[i] = input[6 - i]
    /\ cards # input
    /\ returned = "Straight Flush"

WrapsAroundAce(cs) ==
    ValuesOf(cs) \in {{"JACK", "QUEEN", "KING", "ACE", "2"},
                      {"QUEEN", "KING", "ACE", "2", "3"},
                      {"KING", "ACE", "2", "3", "4"}}

C8_NoWraparound ==
    WrapsAroundAce(cards) =>
        /\ ~isStraight(cards)
        /\ ~isStraightFlush(cards)
        /\ called \in {"isStraight", "isStraightFlush"} => returned = FALSE
        /\ called = "highestHand" =>
               returned \notin {"Straight", "Straight Flush", "Royal Flush"}

C8_Witness ==
    /\ WrapsAroundAce(cards)
    /\ OneSuit(cards)
    /\ cards # input
    /\ called = "highestHand"
    /\ returned = "Flush"

\* C9: a hand in which two cards share a rank is no straight under either ace
\* interpretation, also when offset + index runs past the end of the order.
C9_SharedRankNoStraight ==
    SharesARank(cards) =>
        /\ ~straightUnder(cards, TRUE)
        /\ ~straightUnder(cards, FALSE)
        /\ ~isStraight(cards)
        /\ called = "isStraight" => returned = FALSE

\* the position read for the last card lies past the end of the rank order
C9_Witness ==
    /\ SharesARank(cards)
    /\ called = "isStraight"
    /\ returned = FALSE
    /\ indexOf(cardOrder(TRUE), toSorted(cards, TRUE)[1].value) + 4
           >= Len(cardOrder(TRUE))

\* C10: a full house is never two pair.
C10_FullHouseNotTwoPair ==
    isFullHouse(cards) => ~isTwoPair(cards)

C10_Witness ==
    /\ called = "isFullHouse"
    /\ returned = TRUE

(***************************************************************************)
(* Properties of the constructors.                                         *)
(***************************************************************************)
NonEmptyString(x) == x.t = "string" /\ x.s # ""

HasFourStrings(card) ==
    /\ NonEmptyString(card.code)
    /\ NonEmptyString(card.suit)
    /\ NonEmptyString(card.value)
    /\ NonEmptyString(card.image)

\* the Cards that exist: those of the caller's array and of the Hand
CardsMade ==
    {input[i] : i \in {j \in 1..Len(input) : instanceOfCard(input[j])}}
        \cup {cards[i] : i \in {j \in 1..Len(cards) : instanceOfCard(cards[j])}}

\* C11: a Hand always holds exactly five cards; new Hand of an array of fewer
\* or more than five cards is rejected.
C11_HandHoldsFive ==
    built => Len(cards) = 5

\* C12: new Card with an empty, missing or non-string code, suit, value or
\* image throws a TypeError, and every Card that exists has four non-empty
\* string fields.
C12_CardFieldsValidated ==
    /\ called = "Card" =>
           /\ (\E k \in 1..4 : ~NonEmptyString(args[k])) => returned.kind = "TypeError"
           /\ returned.kind = "Card" => HasFourStrings(returned)
    /\ \A card \in CardsMade : HasFourStrings(card)

\* a Card exists, and a call whose only bad argument is a null image threw
C12_Witness ==
    /\ called = "Card"
    /\ \A k \in 1..3 : NonEmptyString(args[k])
    /\ args[4] = JsNull
    /\ returned = Thrown("Invalid image")
    /\ CardsMade # {}

\* C13: the value of every Card is one of the thirteen rank labels; a Card of
\* any other value is rejected.
C13_RankOfVocabulary ==
    \A card \in CardsMade :
        card.value \in {Str(CARD_ORDER_ACE_HIGH[k]) : k \in 1..Len(CARD_ORDER_ACE_HIGH)}

\* C14: new Hand of an array with an element that is no Card throws a
\* TypeError, whatever the position of the element, and builds no Hand.
C14_NonCardRejected ==
    /\ called = "new" =>
           (returned.kind = "TypeError") <=>
               (\E i \in 1..Len(args[1]) : ~instanceOfCard(args[1][i]))
    /\ built => \A i \in 1..Len(cards) : instanceOfCard(cards[i])

\* the element that is no Card is the third of five
C14_Witness ==
    /\ called = "new"
    /\ returned.kind = "TypeError"
    /\ Len(input) = 5
    /\ instanceOfCard(input[1])
    /\ ~instanceOfCard(input[3])

(***************************************************************************)
(* Properties of the arrays shared with the caller.                        *)
(***************************************************************************)
\* how often c occurs in cs
Occurrences(cs, c) == Cardinality({i \in 1..Len(cs) : cs[i] = c})

SameMultiset(a, b) ==
    \A c \in {a[i] : i \in 1..Len(a)} \cup {b[i] : i \in 1..Len(b)} :
        Occurrences(a, c) = Occurrences(b, c)

\* C15: whatever the caller does with the Hand and with the arrays it gets
\* from it, the Hand holds the multiset of cards it was constructed with.
C15_MultisetPreserved ==
    SameMultiset(cards, input)

\* C16: cardOrder returns the canonical rank order for its argument, and the
\* orders the predicates read stay canonical, whatever the caller did to the
\* arrays earlier calls returned.
C16_CardOrderCanonical ==
    /\ statics = Statics0
    /\ called = "cardOrder" =>
           returned = IF args[1] THEN CARD_ORDER_ACE_HIGH ELSE CARD_ORDER_ACE_LOW

\* the caller cut down and reversed an array cardOrder returned, and called
\* cardOrder again
C16_Witness ==
    /\ called = "cardOrder"
    /\ args = <<TRUE>>
    /\ held.of = "order"
    /\ Len(held.arr) = Len(CARD_ORDER_ACE_HIGH) - MaxPops
    /\ held.arr[1] = CARD_ORDER_ACE_HIGH[Len(CARD_ORDER_ACE_HIGH) - MaxPops]

(***************************************************************************)
(* Properties of toSorted.                                                 *)
(***************************************************************************)
\* the cards of rank v, in the order they have in cs
OfRank(cs, v) == SelectSeq(cs, LAMBDA c : c.value = v)

\* C17: toSorted(aceHigh) returns a permutation of the Hand's five cards,
\* ascending by rank index in cardOrder(aceHigh), cards of equal rank in the
\* relative order they have in the stored sequence.
C17_ToSortedStable ==
    called = "toSorted" =>
        LET order == IF args[1] THEN CARD_ORDER_ACE_HIGH ELSE CARD_ORDER_ACE_LOW
        IN /\ Len(returned) = 5
           /\ SameMultiset(returned, cards)
           /\ \A i \in 1..(Len(returned) - 1) :
                  indexOf(order, returned[i].value) <= indexOf(order, returned[i + 1].value)
           /\ \A v \in ValuesOf(cards) : OfRank(returned, v) = OfRank(cards, v)

\* two cards of one rank and different suits, in a Hand whose stored order
\* is not the sorted one
C17_Witness ==
    /\ called = "toSorted"
    /\ returned # cards
    /\ \E i \in 1..4 : /\ returned[i].value = returned[i + 1].value
                       /\ returned[i].suit # returned[i + 1].suit

(***************************************************************************)
(* Properties of the page.                                                 *)
(***************************************************************************)
DrawInFlight ==
    game.handler \in {"reshuffling", "drawing"} \/ game.page = "drawing"

\* C18: in main (script.js) and in Game.handleDrawHand (README.md),
\* highestHand() is evaluated only when the draw has settled and the Hand holds
\* the five cards drawn; in Game a draw of another count raises an error and
\* no label is shown.
C18_ClassifiedAfterFullDraw ==
    /\ called = "highestHand" =>
           /\ built
           /\ Len(cards) = HandSize
           /\ SameMultiset(cards, input)
           /\ ~DrawInFlight
    /\ game.label # "" => (built /\ Len(cards) = HandSize)
    /\ (game.revision = "README.md" /\ built /\ Len(cards) # HandSize) =>
           (game.handler = "failed" /\ game.label = "")

\* the deck had two cards left when the draw of the handler settled
C18_Witness ==
    /\ game.revision = "README.md"
    /\ called = "draw"
    /\ built
    /\ Len(cards) = 2
    /\ game.handler = "failed"
    /\ game.label = ""

\* C19: Game.load() creates and stores a deck when no deck_id is stored and
\* loads the stored deck otherwise; after a successful load the stored deck_id
\* is the id of the Game's deck, and a stored id is never replaced.
C19_LoadReusesStoredDeck ==
    /\ [](game.revision = "README.md" /\ game.page = "ready" =>
              (game.storage # "" /\ game.deck.deckId = game.storage))
    /\ [][game.revision = "README.md" =>
              /\ game.storage # "" =>
                     /\ game'.storage = game.storage
                     /\ \A id \in DeckIds :
                            game.server[id] = -1 => game'.server[id] = -1
              /\ (game.storage = "" /\ game'.page = "ready") =>
                     /\ game.server[game'.storage] = -1
                     /\ game'.server[game'.storage] = DeckSize]_vars

\* a second load of the page found the deck_id and loaded that deck
C19_Witness ==
    /\ game.revision = "README.md"
    /\ called = "Deck.load"
    /\ game.page = "ready"
    /\ game.deck.deckId = game.storage
    /\ game.storage # ""

(***************************************************************************)
(* Properties of isStraight.                                               *)
(***************************************************************************)
\* the 0-based positions of the ranks of cs in order
RankPositions(cs, order) ==
    {k \in 0..(Len(order) - 1) : order[k + 1] \in ValuesOf(cs)}

\* the five labels of cs, sorted by order, are order[offset .. offset + 4],
\* offset being the position of the lowest of them
FiveInARow(cs, order) ==
    LET positions == RankPositions(cs, order)
    IN /\ positions # {}
       /\ LET offset == CHOOSE k \in positions : \A j \in positions : k <= j
          IN \A index \in 0..(Len(cs) - 1) :
                 /\ offset + index < Len(order)
                 /\ Cardinality({i \in 1..Len(cs) :
                        cs[i].value = order[offset + index + 1]}) = 1

RoyalLabels == {"10", "JACK", "QUEEN", "KING", "ACE"}

\* C21: isRoyalFlush() is true exactly when the five cards have one suit and
\* each of 10, JACK, QUEEN, KING, ACE is among their values, in any order; a
\* hand of one suit that lacks one of the labels is no royal flush.
C21_RoyalFlushIffTopFive ==
    called = "isRoyalFlush" =>
        /\ returned = isRoyalFlush(cards)
        /\ returned <=> (OneSuit(cards) /\ RoyalLabels \subseteq ValuesOf(cards))

\* 9, JACK, QUEEN, KING, ACE of one suit
C21_Witness ==
    /\ called = "isRoyalFlush"
    /\ returned = FALSE
    /\ OneSuit(cards)
    /\ ValuesOf(cards) = {"9", "JACK", "QUEEN", "KING", "ACE"}

FullHouseShape(cs) == RanksHeld(cs, 3) = 1 /\ RanksHeld(cs, 2) = 1
TwoPairShape(cs) == RanksHeld(cs, 2) = 2
FourShape(cs) == RanksHeld(cs, 4) = 1

HandCalled(name) == name \notin {"held.pop", "held.reverse"}

\* C23: of the operations of a Hand only sort() changes the stored sequence;
\* toSorted, countCards, the predicates and highestHand leave it as it was;
\* sort() orders it in place and returns that same array.
C23_OnlySortReorders ==
    [][HandCalled(called') =>
           IF called' = "sort"
           THEN /\ cards' = stableSort(cards, IF args'[1] THEN CARD_ORDER_ACE_HIGH
                                                          ELSE CARD_ORDER_ACE_LOW)
                /\ returned' = cards'
                /\ held'.ref = "cards"
           ELSE cards' = cards]_vars

\* isStraight() ran on a Hand whose stored order is sorted under neither order
C23_Witness ==
    /\ called = "isStraight"
    /\ returned = TRUE
    /\ cards = input
    /\ cards # toSorted(cards, TRUE)
    /\ cards # toSorted(cards, FALSE)

\* the results of every predicate and of highestHand() on cs
ResultsOn(cs) == [name \in Predicates |-> resultOf(name, cs)]

\* C24: Hands share no mutable state: a call on one of two Hands built from
\* the same array changes neither the stored order nor any result of the
\* other Hand, nor the caller's array.
C24_HandsIndependent ==
    [][/\ input' = input
       /\ statics' = statics
       /\ args'[1] = "first" => (other' = other /\ ResultsOn(other') = ResultsOn(other))
       /\ args'[1] = "second" => (cards' = cards /\ ResultsOn(cards') = ResultsOn(cards))]_vars

\* the first Hand sorted ace high, the second ace low, the array as dealt
C24_Witness ==
    /\ called = "sort"
    /\ args = <<"first", TRUE>>
    /\ cards = toSorted(input, TRUE)
    /\ other = toSorted(input, FALSE)
    /\ cards # other
    /\ cards # input
    /\ other # input

(***************************************************************************)
(* The two revisions of the classifier.                                    *)
(***************************************************************************)
\* C25: the Hand of script.js and the Hand of README.md agree: on every
\* five-card hand each predicate, the rank counts and highestHand() return
\* the same in both.
C25_RevisionsAgree ==
    /\ called = "countCards" =>
           /\ DOMAIN returned = DOMAIN countByRank(cards)
           /\ \A v \in DOMAIN returned : returned[v] = countByRank(cards)[v]
    /\ called = "isFlush" => returned = README_isFlush(cards)
    /\ called = "isStraight" => returned = README_isStraight(cards)
    /\ called = "isRoyalFlush" => returned = README_isRoyalFlush(cards)
    /\ called = "isStraightFlush" => returned = README_isStraightFlush(cards)
    /\ \A count \in Counts :
           called = "isOfAKind(" \o ToString(count) \o ")" =>
               returned = README_isOfAKind(cards, count)
    /\ called = "isFullHouse" => returned = README_isFullHouse(cards)
    /\ called = "isTwoPair" => returned = README_isTwoPair(cards)
    /\ called = "isOnePair" => returned = README_isOnePair(cards)
    /\ called = "highestHand" => returned = README_highestHand(cards)

\* the wheel in mixed suits: a straight by the ace-low order only
C25_Witness ==
    /\ called = "highestHand"
    /\ returned = "Straight"
    /\ ValuesOf(cards) = {"ACE", "2", "3", "4", "5"}
    /\ README_highestHand(cards) = "Straight"
    /\ ~README_straightUnder(cards, TRUE)

(***************************************************************************)
(* Properties of Deck.draw and of the click handler.                       *)
(***************************************************************************)
\* the draw request of the handler has settled with a response that is ok
DrawAnswered ==
    /\ game.revision = "README.md"
    /\ called = "draw"
    /\ returned = "Card[]"

C27_ButtonEnabledAgain ==
    (/\ game.revision = "README.md"
     /\ game.atCall # NoDeck
     /\ game.handler \in {"idle", "failed"}) => ~game.disabled

\* C28: a click is handled only when load() has completed and set the deck.
C28_ClickAfterLoad ==
    called = "click" => (game.page = "ready" /\ game.deck # NoDeck)

\* the draw request has settled with a response that is not ok
DrawFailed ==
    /\ called = "draw"
    /\ returned = "Error"

\* C29 as stated: after a draw whose request failed, the Deck's remaining
\* count and shuffled flag are those of the start of the call.
C29_FailedDrawRestoresDeck ==
    DrawFailed =>
        /\ game.deck.remaining = game.atCall.remaining
        /\ game.deck.shuffled = game.atCall.shuffled

\* C29, amended: a draw request that fails raises the error, gives no cards
\* and leaves remaining and shuffled as they were when the request was sent:
\* the values of the start of the call, or, when draw(n, true) reshuffled
\* first, the values that reshuffle reported.  During a draw the Deck's
\* fields change only to the values of a response that is ok.
C29_FailedDrawLeavesDeck ==
    /\ [][(DrawInFlight /\ DrawFailed') =>
              /\ game'.deck = game.deck
              /\ input' = input /\ cards' = cards /\ built' = built
              /\ game'.label = game.label
              /\ game'.handler = "failed" \/ game'.page = "failed"
              /\ game'.deck =
                     IF game.revision = "README.md" /\ game.atCall.remaining < HandSize
                     THEN [game.atCall EXCEPT !.remaining = DeckSize, !.shuffled = TRUE]
                     ELSE game.atCall]_vars
    /\ [][(DrawInFlight /\ called' # "reload" /\ game'.deck # game.deck) =>
              /\ returned' # "Error"
              /\ game'.handler # "failed" \/ wrongCount(input')
              /\ game'.deck.remaining = game'.server[game.deck.deckId]]_vars

\* the reshuffle of draw(5, true) settled, then the draw request failed
C29_Witness ==
    /\ DrawFailed
    /\ game.revision = "README.md"
    /\ game.handler = "failed"
    /\ game.atCall.remaining < HandSize
    /\ game.deck.remaining = DeckSize

====
